---------------------------- MODULE Spec2Model ----------------------------
(***************************************************************************)
(* A model of lib/queue.js of buildy: the Queue that runs a chain of tasks *)
(* one after the other, advances on the runner's 'complete' signal, halts  *)
(* on its 'failed' signal and forks into child Queues.                     *)
(*                                                                         *)
(* JavaScript runs every call to completion, so one action is one call     *)
(* made from outside the Queue (by the build script or by the runner) with *)
(* every call nested in it.  The Queue's methods are operators from a      *)
(* world (the objects of the program) to the world after the call.         *)
(***************************************************************************)
EXTENDS Naturals, Sequences, FiniteSets, TLC

\* Bounds of the model.
MaxTasks == 3       \* tasks the build script appends to the root Queue
MaxStateLen == 1    \* elements a runner pushes onto its state array
MaxCalls == 4       \* calls made by a script that ignores the lifecycle

Undefined == "undefined"
NoTask == [type |-> Undefined, spec |-> Undefined]

\* Task types handed to the runner, and the reserved control type.
TaskTypes == {"concat", "write"}
ForkType == "fork"

\* The runner is a collaborator: what it does with a task is decided by the
\* task's spec.  "now": it signals 'complete' before exec returns; "nowfail":
\* it signals 'failed' before exec returns; "later": it signals after exec
\* has returned (or never).
Modes == {"now", "nowfail", "later"}
Results == {"R1", "R2"}
Errors == {"E1"}
SyncResult(type) == IF type = "concat" THEN "R1" ELSE "R2"

\* Continuations of a fork are functions of the build script: each appends
\* tasks to its child Queue (this.task(...)) and may start it
\* (this.run(childWorker)).
Continuation(fn) ==
    CASE fn = "fnIdle"  -> [tasks |-> <<>>, run |-> FALSE]
      [] fn = "fnWrite" -> [tasks |-> <<[type |-> "concat", spec |-> "later"],
                                         [type |-> "write", spec |-> "later"]>>,
                            run |-> TRUE]
      [] fn = "fnMin"   -> [tasks |-> <<[type |-> "write", spec |-> "later"]>>,
                            run |-> TRUE]
      [] fn = "fnNest"  -> [tasks |-> <<[type |-> "concat", spec |-> "now"],
                                        [type |-> ForkType, spec |-> "inner"]>>,
                            run |-> TRUE]
      [] fn = "fnForkFirst" -> [tasks |-> <<[type |-> ForkType, spec |-> "inner"]>>,
                                run |-> TRUE]

\* Fork Specifications: the keys of the object in insertion order, each with
\* its continuation.
ForkSpec(id) ==
    CASE id = "none"   -> <<>>
      [] id = "pair"   -> <<[name |-> "debug", fn |-> "fnWrite"],
                            [name |-> "min", fn |-> "fnMin"]>>
      [] id = "nested" -> <<[name |-> "debug", fn |-> "fnNest"],
                            [name |-> "min", fn |-> "fnIdle"]>>
      [] id = "first"  -> <<[name |-> "debug", fn |-> "fnForkFirst"],
                            [name |-> "min", fn |-> "fnMin"]>>
      [] id = "inner"  -> <<[name |-> "lint", fn |-> "fnWrite"]>>
ForkSpecIds == {"none", "pair", "nested", "first"}

\* What the build script may append to the root Queue.
TaskMenu ==
    [type : TaskTypes, spec : Modes] \cup [type : {ForkType}, spec : ForkSpecIds]

VARIABLES
    queues,     \* the Queue objects, by identity: 1 is the root
    runners,    \* the runner objects (Buildy), by identity: 1 is the root's
    heap,       \* the arrays that runner states refer to, by identity
    promises,   \* the completion signals created by run, by identity
    trace,      \* what observers of the events and of the runner have seen
    thrown,     \* the error the last call threw, or "none"
    started,    \* the build script has called run on the root Queue
    calls       \* calls made so far by a script that ignores the lifecycle

vars == <<queues, runners, heap, promises, trace, thrown, started, calls>>

World ==
    [queues |-> queues, runners |-> runners, heap |-> heap,
     promises |-> promises, trace |-> trace, thrown |-> "none"]

Becomes(w) ==
    /\ queues' = w.queues
    /\ runners' = w.runners
    /\ heap' = w.heap
    /\ promises' = w.promises
    /\ trace' = w.trace
    /\ thrown' = w.thrown

--------------------------------------------------------------------------
\* The Queue object.

Queue(name, options) ==
    [name |-> name, queue |-> <<>>, pos |-> 0, stack |-> <<>>,
     options |-> options, runner |-> 0, promise |-> 0]

\* this._queue[this._queuePosition]: the cursor is 0-based.
TaskAt(Q) == IF Q.pos + 1 \in DOMAIN Q.queue THEN Q.queue[Q.pos + 1] ELSE NoTask

\* A call that returned silently where it throws.
Throw_Silent(w, error) == w

Throw(w, error) == [w EXCEPT !.thrown = error]

\* An entry of the trace: an event with its payload, or a call seen by the
\* runner or by a continuation.  qid, at, worker and parent are the observer's
\* bookkeeping: the Queue object concerned and its cursor at that moment, the
\* runner object concerned, and the Queue that forked.
Entry(kind, w, q) ==
    [kind |-> kind, qid |-> q, at |-> w.queues[q].pos,
     queue |-> Undefined, stack |-> <<>>, position |-> 0, type |-> Undefined,
     task |-> NoTask, result |-> Undefined, worker |-> 0, parent |-> 0]

Emit(w, entry) == [w EXCEPT !.trace = Append(@, entry)]

\* task as it would be if it put the record at the head of the list.
task_Front(w, q, type, spec) ==
    [w EXCEPT !.queues[q].queue = <<[type |-> type, spec |-> spec]>> \o @]

task(w, q, type, spec) ==
    [w EXCEPT !.queues[q].queue = Append(@, [type |-> type, spec |-> spec])]

\* eachFork is called by forEach without a thisArg and the file is not in
\* strict mode: its `this` is the global object, which has no _name.
ThisName(w, self) == Undefined

RECURSIVE run(_, _, _)
RECURSIVE next(_, _)
RECURSIVE _onTaskComplete(_, _, _)
RECURSIVE _onTaskFailed(_, _, _)
RECURSIVE _fork(_, _, _)
RECURSIVE eachFork(_, _, _, _, _, _)
RECURSIVE callContinuation(_, _, _, _)
RECURSIVE exec(_, _, _, _, _)
RECURSIVE signal(_, _, _, _)

\* signal as it would be if the handlers of every Queue shared one `self`,
\* the Queue that called run last.
signal_SharedSelf(w, p, kind, result) ==
    LET q == w.promises[Len(w.promises)].owner
        w1 == [w EXCEPT !.promises[p].fired = @ + 1]
        w2 == Emit(w1, [Entry("signal:" \o kind, w1, w.promises[p].owner) EXCEPT
                            !.position = w.promises[p].index,
                            !.result = result])
    IN  IF kind = "complete"
        THEN _onTaskComplete(w2, q, result)
        ELSE _onTaskFailed(w2, q, result)

\* promise.emit(kind, result): the handlers run registered hold `self`.
signal(w, p, kind, result) ==
    LET q == w.promises[p].owner
        w1 == [w EXCEPT !.promises[p].fired = @ + 1]
        w2 == Emit(w1, [Entry("signal:" \o kind, w1, q) EXCEPT
                            !.position = w.promises[p].index,
                            !.result = result])
    IN  IF kind = "complete"
        THEN _onTaskComplete(w2, q, result)
        ELSE _onTaskFailed(w2, q, result)

\* The Execution Contract as the runner implements it.
exec(w, r, type, spec, p) ==
    LET q == w.promises[p].owner
        w1 == Emit(w, [Entry("exec", w, q) EXCEPT
                           !.type = type, !.position = w.promises[p].index,
                           !.worker = r])
    IN  CASE spec = "now" -> signal(w1, p, "complete", SyncResult(type))
          [] spec = "nowfail" -> signal(w1, p, "failed", "E1")
          [] OTHER -> w1

\* Buildy.factory(type, state): a runner with that type tag and that state.
factory(w, type, state) ==
    [w EXCEPT !.runners = Append(@, [type |-> type, state |-> state])]

\* forkspec[qName].call(q, childWorker)
callContinuation(w, fn, q, worker) ==
    LET k == Continuation(fn)
        w1 == Emit(w, [Entry("continuation", w, q) EXCEPT
                           !.queue = w.queues[q].name, !.type = fn,
                           !.worker = worker])
        Fill[i \in 0..Len(k.tasks)] ==
            IF i = 0 THEN w1
            ELSE task(Fill[i - 1], q, k.tasks[i].type, k.tasks[i].spec)
        w2 == Fill[Len(k.tasks)]
    IN  IF k.run THEN run(w2, q, worker) ELSE w2

eachFork(w, self, forkspec, i, runnerType, runnerState) ==
    IF i > Len(forkspec) \/ w.thrown # "none" THEN w
    ELSE
        LET qName == forkspec[i].name
            q == Len(w.queues) + 1
            w1 == [w EXCEPT !.queues =
                       Append(@, Queue(qName, w.queues[self].options))]
            childWorker == Len(w1.runners) + 1
            w2 == factory(w1, runnerType, runnerState)
            w3 == [w2 EXCEPT !.queues[q].stack = Append(@, ThisName(w2, self))]
            seen == Emit(w3, [Entry("newQueue", w3, q) EXCEPT
                                  !.queue = qName, !.worker = childWorker,
                                  !.parent = self])
            w4 == callContinuation(seen, forkspec[i].fn, q, childWorker)
        IN  eachFork(w4, self, forkspec, i + 1, runnerType, runnerState)

_fork(w, self, forkspec) ==
    LET Q == w.queues[self] IN
    IF Q.runner = 0 THEN Throw(w, "TypeError")
    ELSE
        LET R == w.runners[Q.runner]
            sliced == R.state.kind = "array"
            w1 == IF sliced
                  THEN [w EXCEPT !.heap = Append(@, w.heap[R.state.ref])]
                  ELSE w
            runnerState == IF sliced
                           THEN [kind |-> "array", ref |-> Len(w1.heap)]
                           ELSE R.state
        IN  eachFork(w1, self, ForkSpec(forkspec), 1, R.type, runnerState)

\* run as it would be if it went on to the next task without waiting for
\* the runner's signal.
run_NoWait(w, q, runner) ==
    LET Q == w.queues[q]
        t == TaskAt(Q)
    IN  IF t = NoTask THEN Throw(w, "TypeError")
        ELSE IF t.type = ForkType THEN _fork(w, q, t.spec)
        ELSE
            LET p == Len(w.promises) + 1
                w1 == [w EXCEPT
                          !.promises = Append(@, [owner |-> q, index |-> Q.pos,
                                                  fired |-> 0]),
                          !.queues[q].promise = p,
                          !.queues[q].runner = runner]
                w2 == Emit(w1, [Entry("taskStarted", w1, q) EXCEPT
                                    !.queue = Q.name, !.stack = Q.stack,
                                    !.position = Q.pos, !.type = t.type])
                w3 == exec(w2, runner, t.type, t.spec, p)
            IN  IF w3.promises[p].fired = 0 THEN next(w3, q) ELSE w3

\* run as it would be if the chain went on after a fork.
run_PastFork(w, q, runner) ==
    LET Q == w.queues[q]
        t == TaskAt(Q)
    IN  IF t = NoTask THEN Throw(w, "TypeError")
        ELSE IF t.type = ForkType THEN next(_fork(w, q, t.spec), q)
        ELSE
            LET p == Len(w.promises) + 1
                w1 == [w EXCEPT
                          !.promises = Append(@, [owner |-> q, index |-> Q.pos,
                                                  fired |-> 0]),
                          !.queues[q].promise = p,
                          !.queues[q].runner = runner]
                w2 == Emit(w1, [Entry("taskStarted", w1, q) EXCEPT
                                    !.queue = Q.name, !.stack = Q.stack,
                                    !.position = Q.pos, !.type = t.type])
            IN  IF runner = 0 THEN Throw(w2, "TypeError")
                ELSE exec(w2, runner, t.type, t.spec, p)

run(w, q, runner) ==
    LET Q == w.queues[q]
        t == TaskAt(Q)
    IN  IF t = NoTask THEN Throw(w, "TypeError")
        ELSE IF t.type = ForkType THEN _fork(w, q, t.spec)
        ELSE
            LET p == Len(w.promises) + 1
                w1 == [w EXCEPT
                          !.promises = Append(@, [owner |-> q, index |-> Q.pos,
                                                  fired |-> 0]),
                          !.queues[q].promise = p,
                          !.queues[q].runner = runner]
                w2 == Emit(w1, [Entry("taskStarted", w1, q) EXCEPT
                                    !.queue = Q.name, !.stack = Q.stack,
                                    !.position = Q.pos, !.type = t.type])
            IN  IF runner = 0 THEN Throw(w2, "TypeError")
                ELSE exec(w2, runner, t.type, t.spec, p)

\* next as it would be if it stepped over a task.
next_Skip(w, q) ==
    LET w1 == [w EXCEPT !.queues[q].pos = @ + 2]
        Q == w1.queues[q]
    IN  IF Q.pos < Len(Q.queue)
        THEN run(w1, q, Q.runner)
        ELSE Emit(w1, [Entry("queueComplete", w1, q) EXCEPT !.queue = Q.name])

next(w, q) ==
    LET w1 == [w EXCEPT !.queues[q].pos = @ + 1]
        Q == w1.queues[q]
    IN  IF Q.pos < Len(Q.queue)
        THEN run(w1, q, Q.runner)
        ELSE Emit(w1, [Entry("queueComplete", w1, q) EXCEPT !.queue = Q.name])

\* _onTaskComplete as it would be if it advanced before it emitted.
_onTaskComplete_Late(w, q, result) ==
    LET w1 == next(w, q)
        Q == w1.queues[q]
    IN  Emit(w1, [Entry("taskComplete", w1, q) EXCEPT
                      !.queue = Q.name, !.task = TaskAt(Q), !.result = result])

\* _onTaskComplete as it would be if it forgot to go on.
_onTaskComplete_Forget(w, q, result) ==
    LET Q == w.queues[q]
    IN  Emit(w, [Entry("taskComplete", w, q) EXCEPT
                     !.queue = Q.name, !.task = TaskAt(Q), !.result = result])

_onTaskComplete(w, q, result) ==
    LET Q == w.queues[q]
        w1 == Emit(w, [Entry("taskComplete", w, q) EXCEPT
                           !.queue = Q.name, !.task = TaskAt(Q),
                           !.result = result])
    IN  next(w1, q)

\* _onTaskFailed as it would be if it went on after a failure.
_onTaskFailed_GoOn(w, q, result) ==
    LET Q == w.queues[q]
    IN  next(Emit(w, [Entry("taskFailed", w, q) EXCEPT
                          !.queue = Q.name, !.task = TaskAt(Q),
                          !.result = result]), q)

_onTaskFailed(w, q, result) ==
    LET Q == w.queues[q]
    IN  Emit(w, [Entry("taskFailed", w, q) EXCEPT
                     !.queue = Q.name, !.task = TaskAt(Q), !.result = result])

--------------------------------------------------------------------------
\* The program: a build script and a runner that keep to the lifecycle.

RunnerStates == {[kind |-> "prim", ref |-> 0], [kind |-> "array", ref |-> 1]}

Init ==
    /\ queues = <<Queue("build", "options")>>
    /\ \E s \in RunnerStates :
        /\ runners = <<[type |-> "STRING", state |-> s]>>
        /\ heap = IF s.kind = "array" THEN << <<>> >> ELSE <<>>
    /\ promises = <<>>
    /\ trace = <<>>
    /\ thrown = "none"
    /\ started = FALSE
    /\ calls = 0

\* queue.task(type, spec), before run.
Task ==
    /\ ~started
    /\ Len(queues[1].queue) < MaxTasks
    /\ \E t \in TaskMenu : Becomes(task(World, 1, t.type, t.spec))
    /\ UNCHANGED <<started, calls>>

\* queue.run(runner), once.
Run ==
    /\ ~started
    /\ started' = TRUE
    /\ Becomes(run(World, 1, 1))
    /\ UNCHANGED calls

\* The runner answers an exec it has not answered yet.
SignalComplete ==
    /\ \E p \in DOMAIN promises : \E r \in Results :
        /\ promises[p].fired = 0
        /\ Becomes(signal(World, p, "complete", r))
    /\ UNCHANGED <<started, calls>>

SignalFailed ==
    /\ \E p \in DOMAIN promises : \E e \in Errors :
        /\ promises[p].fired = 0
        /\ Becomes(signal(World, p, "failed", e))
    /\ UNCHANGED <<started, calls>>

\* A runner changes its state array in place.
Mutate ==
    /\ \E r \in DOMAIN runners :
        /\ runners[r].state.kind = "array"
        /\ Len(heap[runners[r].state.ref]) < MaxStateLen
        /\ heap' = [heap EXCEPT ![runners[r].state.ref] = Append(@, r)]
    /\ UNCHANGED <<queues, runners, promises, trace, thrown, started, calls>>

Next == Task \/ Run \/ SignalComplete \/ SignalFailed

Spec == Init /\ [][Next]_vars

\* The same program with runners that change their state arrays in place.
NextMutate == Task \/ Run \/ SignalComplete \/ SignalFailed \/ Mutate

SpecMutate == Init /\ [][NextMutate]_vars

\* A fork-free build script with a runner that honours the Execution
\* Contract: it does its work asynchronously and answers every exec, so as
\* long as a completion signal is unanswered the runner will signal.
TaskLive ==
    /\ ~started
    /\ Len(queues[1].queue) < MaxTasks
    /\ \E type \in TaskTypes : Becomes(task(World, 1, type, "later"))
    /\ UNCHANGED <<started, calls>>

Signal == SignalComplete \/ SignalFailed

NextLive == TaskLive \/ Run \/ SignalComplete \/ SignalFailed

SpecLive == Init /\ [][NextLive]_vars /\ WF_vars(Signal)

--------------------------------------------------------------------------
\* A build script and a runner that ignore the lifecycle: any public
\* operation on any Queue at any time, and any signal on any completion
\* signal, answered or not.

AnyTask ==
    /\ calls < MaxCalls
    /\ \E q \in DOMAIN queues : \E t \in TaskMenu :
        /\ Len(queues[q].queue) < MaxTasks
        /\ Becomes(task(World, q, t.type, t.spec))
    /\ calls' = calls + 1
    /\ UNCHANGED started

AnyRun ==
    /\ calls < MaxCalls
    /\ \E q \in DOMAIN queues : \E r \in DOMAIN runners :
        Becomes(run(World, q, r))
    /\ calls' = calls + 1
    /\ started' = TRUE

AnyNext ==
    /\ calls < MaxCalls
    /\ \E q \in DOMAIN queues : Becomes(next(World, q))
    /\ calls' = calls + 1
    /\ UNCHANGED started

AnySignalComplete ==
    /\ calls < MaxCalls
    /\ \E p \in DOMAIN promises : \E r \in Results :
        Becomes(signal(World, p, "complete", r))
    /\ calls' = calls + 1
    /\ UNCHANGED started

AnySignalFailed ==
    /\ calls < MaxCalls
    /\ \E p \in DOMAIN promises : \E e \in Errors :
        Becomes(signal(World, p, "failed", e))
    /\ calls' = calls + 1
    /\ UNCHANGED started

NextAny == AnyTask \/ AnyRun \/ AnyNext \/ AnySignalComplete \/ AnySignalFailed

SpecAny == Init /\ [][NextAny]_vars

--------------------------------------------------------------------------
\* What the trace tells.

Events == {"taskStarted", "taskComplete", "taskFailed", "queueComplete"}

At(kind, q) == {i \in DOMAIN trace : trace[i].kind = kind /\ trace[i].qid = q}
Count(kind, q) == Cardinality(At(kind, q))

\* The payload of an entry, without the observer's bookkeeping.
Payload(e) ==
    [kind |-> e.kind, queue |-> e.queue, stack |-> e.stack,
     position |-> e.position, type |-> e.type, task |-> e.task,
     result |-> e.result]

\* The events Queue q has emitted, in order.
EventsOf(q) ==
    LET Keep(e) == e.qid = q /\ e.kind \in Events
        kept == SelectSeq(trace, Keep)
    IN  [i \in DOMAIN kept |-> Payload(kept[i])]

Pending(q) == {p \in DOMAIN promises : promises[p].owner = q /\ promises[p].fired = 0}
ForkFree(q) == \A i \in DOMAIN queues[q].queue : queues[q].queue[i].type # ForkType

--------------------------------------------------------------------------
\* C1: within one Queue at most one task is in flight, and neither exec nor
\* taskStarted for the task at index k+1 happens before the Queue has
\* received the success signal for the task at index k.
C1_OneTaskInFlight ==
    \A q \in DOMAIN queues :
        /\ Cardinality(Pending(q)) <= 1
        /\ \A i \in At("exec", q) \cup At("taskStarted", q) :
               trace[i].position > 0 =>
                   \E j \in At("signal:complete", q) :
                       j < i /\ trace[j].position + 1 = trace[i].position

\* A Queue has dispatched its second task to the runner while its sibling
\* is still waiting for a signal.
C1_Witness ==
    \E q \in DOMAIN queues : \E i \in At("exec", q) :
        /\ trace[i].position = 1
        /\ Pending(q) # {}
        /\ \E o \in DOMAIN queues : o # q /\ Pending(o) # {}

\* The events expected of a fork-free Queue with N tasks that has received
\* c success signals and no failure: taskStarted(0), taskComplete(0), ...,
\* taskStarted(c-1), taskComplete(c-1), then taskStarted(c) while c < N and
\* queueComplete once c = N; every taskStarted carries its position and the
\* type of its task, every taskComplete its task and the result signalled.
ResultFor(q, k) ==
    trace[CHOOSE i \in At("signal:complete", q) : trace[i].position = k].result

ExpectedStarted(q, k) ==
    [kind |-> "taskStarted", queue |-> queues[q].name, stack |-> queues[q].stack,
     position |-> k, type |-> queues[q].queue[k + 1].type, task |-> NoTask,
     result |-> Undefined]

ExpectedComplete(q, k) ==
    [kind |-> "taskComplete", queue |-> queues[q].name, stack |-> <<>>,
     position |-> 0, type |-> Undefined, task |-> queues[q].queue[k + 1],
     result |-> ResultFor(q, k)]

ExpectedQueueComplete(q) ==
    [kind |-> "queueComplete", queue |-> queues[q].name, stack |-> <<>>,
     position |-> 0, type |-> Undefined, task |-> NoTask, result |-> Undefined]

ExpectedEvents(q) ==
    LET N == Len(queues[q].queue)
        c == Count("signal:complete", q)
    IN  [i \in 1..(2 * c + 1) |->
            IF i = 2 * c + 1
            THEN IF c < N THEN ExpectedStarted(q, c) ELSE ExpectedQueueComplete(q)
            ELSE IF i % 2 = 1 THEN ExpectedStarted(q, (i - 1) \div 2)
            ELSE ExpectedComplete(q, (i \div 2) - 1)]

AllSucceeded(q) == started /\ ForkFree(q) /\ At("signal:failed", q) = {}

\* C2 for every N, N = 0 included: the events of a fork-free root Queue on
\* which run was called once and whose signals were all successes are the
\* expected ones, N taskStarted and N taskComplete in task order and then
\* one queueComplete.
C2_AsWritten == AllSucceeded(1) => EventsOf(1) = ExpectedEvents(1)

\* C2 for N >= 1: the events of a fork-free root Queue with at least one
\* task on which run was called once and whose signals were all successes
\* are the expected ones, N taskStarted and N taskComplete in task order and
\* then one queueComplete, whether the runner signals inside exec or later.
C2_EventsInTaskOrder ==
    (AllSucceeded(1) /\ Len(queues[1].queue) >= 1) => EventsOf(1) = ExpectedEvents(1)

\* Three tasks, one answered inside exec and one later, all succeeded and
\* queueComplete emitted.
C2_Witness ==
    /\ AllSucceeded(1)
    /\ Len(queues[1].queue) = 3
    /\ \E i, j \in DOMAIN queues[1].queue :
        queues[1].queue[i].spec = "now" /\ queues[1].queue[j].spec = "later"
    /\ Count("queueComplete", 1) = 1
    /\ Count("taskComplete", 1) = 3

\* C3: a failure signal for the task at index k makes the Queue emit
\* taskFailed for that task, and nothing more: no later taskStarted,
\* taskComplete or queueComplete and no later exec by that Queue.
C3_FailureHalts ==
    \A q \in DOMAIN queues : \A i \in At("signal:failed", q) :
        /\ i + 1 \in DOMAIN trace
        /\ Payload(trace[i + 1]) =
               [kind |-> "taskFailed", queue |-> queues[q].name, stack |-> <<>>,
                position |-> 0, type |-> Undefined,
                task |-> queues[q].queue[trace[i].position + 1],
                result |-> trace[i].result]
        /\ trace[i + 1].qid = q
        /\ \A j \in DOMAIN trace :
               (j > i + 1 /\ trace[j].qid = q) =>
                   trace[j].kind \notin Events \cup {"exec"}

\* A task that is not the last of its Queue has failed, and another Queue
\* has emitted an event since.
C3_Witness ==
    \E q \in DOMAIN queues : \E i \in At("signal:failed", q) :
        /\ trace[i].position + 1 < Len(queues[q].queue)
        /\ \E j \in DOMAIN trace : j > i + 1 /\ trace[j].kind \in Events

\* C4: the cursor of a Queue is the number of success signals it has
\* received, each of them for the task then at the cursor: a success signal
\* advances the cursor by one, a failure signal and the absence of a signal
\* leave it where it is.
C4_CursorCountsSuccesses ==
    \A q \in DOMAIN queues :
        /\ queues[q].pos = Count("signal:complete", q)
        /\ \A i \in At("signal:complete", q) \cup At("signal:failed", q) :
               trace[i].position = trace[i].at
        /\ \A i \in At("taskFailed", q) : trace[i].at = queues[q].pos

\* A Queue that has advanced twice and then received a failure signal.
C4_Witness ==
    \E q \in DOMAIN queues :
        /\ queues[q].pos = 2
        /\ At("signal:failed", q) # {}
        /\ Pending(q) = {}

\* C5: the cursor of every Queue lies in 0..tasks.length, and it equals
\* tasks.length exactly when the Queue has emitted queueComplete.
C5_CursorWithinTasks ==
    \A q \in DOMAIN queues :
        /\ queues[q].pos <= Len(queues[q].queue)
        /\ queues[q].pos = Len(queues[q].queue) <=> Count("queueComplete", q) >= 1

\* C6: no Queue emits queueComplete twice.
C6_QueueCompleteOnce ==
    \A q \in DOMAIN queues : Count("queueComplete", q) <= 1

\* The Queues created by Queue q's fork, in the order of their creation.
Children(q) ==
    LET Keep(e) == e.kind = "newQueue" /\ e.parent = q
    IN  SelectSeq(trace, Keep)

\* The cursor of Queue q, running, has moved onto a fork task.
ReachedFork(q) ==
    /\ queues[q].runner # 0
    /\ TaskAt(queues[q]).type = ForkType
    /\ \E j \in At("signal:complete", q) : trace[j].position + 1 = queues[q].pos

\* C7: once the cursor of a running Queue has reached a fork task with M
\* entries, M Queues have been created, one per key in turn and named by it,
\* and each continuation has been called once, with its child Queue and a
\* runner of its own.
C7_OneChildPerEntry ==
    \A q \in DOMAIN queues :
        ReachedFork(q) =>
            LET fs == ForkSpec(TaskAt(queues[q]).spec)
                ch == Children(q)
            IN  /\ Len(ch) = Len(fs)
                /\ \A i \in DOMAIN ch :
                    /\ queues[ch[i].qid].name = fs[i].name
                    /\ ch[i].worker # queues[q].runner
                    /\ Cardinality({j \in At("continuation", ch[i].qid) :
                                        /\ trace[j].type = fs[i].fn
                                        /\ trace[j].worker = ch[i].worker}) = 1
                    /\ Count("continuation", ch[i].qid) = 1

\* C8: the ancestry of every Queue created by a fork is its parent's
\* ancestry with the parent's name appended.
C8_AncestryOfChild ==
    \A q \in DOMAIN queues : \A i \in DOMAIN Children(q) :
        queues[Children(q)[i].qid].stack =
            Append(queues[q].stack, queues[q].name)

\* What runner r reads in its state array: the runners that pushed onto it.
Elements(r) ==
    IF runners[r].state.kind = "array"
    THEN {heap[runners[r].state.ref][i] : i \in DOMAIN heap[runners[r].state.ref]}
    ELSE {}

SameArray(r1, r2) ==
    /\ runners[r1].state.kind = "array"
    /\ runners[r2].state.kind = "array"
    /\ runners[r1].state.ref = runners[r2].state.ref

\* C9: the state of the runner handed to a continuation is no array that
\* the parent's runner or a sibling's runner holds, and nothing a sibling's
\* runner or a child's runner pushes shows in it or in the parent's.
C9_NoSharedRunnerState ==
    \A q \in DOMAIN queues : \A i \in DOMAIN Children(q) :
        LET mine == Children(q)[i].worker IN
        /\ ~SameArray(mine, queues[q].runner)
        /\ mine \notin Elements(queues[q].runner)
        /\ \A j \in DOMAIN Children(q) \ {i} :
            /\ ~SameArray(mine, Children(q)[j].worker)
            /\ Children(q)[j].worker \notin Elements(mine)

\* C10: run on a Queue whose only task is the fork {"debug": fn1, "min": fn2}
\* has created the Queues "debug" and "min", has called fn1 and fn2 once
\* each and has emitted nothing on the parent.
C10_ForkAsOnlyTask ==
    (started /\ queues[1].queue = <<[type |-> ForkType, spec |-> "pair"]>>) =>
        /\ Len(queues) = 3
        /\ queues[2].name = "debug"
        /\ queues[3].name = "min"
        /\ Count("continuation", 2) = 1
        /\ Count("continuation", 3) = 1
        /\ EventsOf(1) = <<>>

\* C11: run on a Queue with no task at the cursor (no tasks at all, or the
\* cursor at or past tasks.length) raises an error and does nothing else:
\* no exec, no event, the cursor and every object as they were.
C11_RunPastEndThrows ==
    \A q \in DOMAIN queues : \A r \in DOMAIN runners :
        queues[q].pos >= Len(queues[q].queue) =>
            run(World, q, r) = [World EXCEPT !.thrown = "TypeError"]

\* run has thrown on the only Queue, which had completed its tasks: the last
\* entry of the trace is still its queueComplete.
C11_Witness ==
    /\ thrown = "TypeError"
    /\ Len(queues) = 1
    /\ ForkFree(1)
    /\ Len(queues[1].queue) >= 1
    /\ queues[1].pos = Len(queues[1].queue)
    /\ Count("queueComplete", 1) = 1
    /\ trace[Len(trace)].kind = "queueComplete"

\* The entries at which Queue q became Complete (it emitted queueComplete) or
\* Halted (it emitted taskFailed for a failure signal).
Terminal(q) == At("queueComplete", q) \cup At("taskFailed", q)

\* C12: Complete and Halted are terminal: after a Queue has emitted
\* queueComplete or taskFailed it dispatches no task, emits no event and
\* keeps its cursor, whatever is called or signalled afterwards.
C12_TerminalStatesStay ==
    \A q \in DOMAIN queues : \A i \in Terminal(q) :
        /\ queues[q].pos = trace[i].at
        /\ \A j \in DOMAIN trace :
               (j > i /\ trace[j].qid = q) =>
                   trace[j].kind \notin Events \cup {"exec"}

\* C13: once run has dispatched a task of a Queue, the task list of that
\* Queue never changes again.
C13_TasksFixedOnceRunning ==
    [][\A q \in DOMAIN queues :
           At("taskStarted", q) # {} => queues'[q].queue = queues[q].queue]_vars

\* C14: a fork task ends the chain of its Queue: no fork task is passed to
\* exec, the cursor never moves past a fork, and every event and every exec
\* of the Queue dates from before its cursor stood on the fork.
C14_ForkEndsParentChain ==
    /\ \A i \in DOMAIN trace : trace[i].kind = "exec" => trace[i].type # ForkType
    /\ \A q \in DOMAIN queues : \A k \in DOMAIN queues[q].queue :
           queues[q].queue[k].type = ForkType =>
               /\ queues[q].pos <= k - 1
               /\ \A j \in DOMAIN trace :
                      (trace[j].qid = q /\ trace[j].kind \in Events \cup {"exec"})
                          => trace[j].at < k - 1

\* The cursor of a Queue stands on a fork that has tasks after it, the
\* children exist and one of them has completed a task since.
C14_Witness ==
    \E q \in DOMAIN queues :
        /\ ReachedFork(q)
        /\ queues[q].pos + 1 < Len(queues[q].queue)
        /\ Len(Children(q)) = 2
        /\ \E i \in DOMAIN Children(q) :
               Count("taskComplete", Children(q)[i].qid) >= 1

\* C15: a completion signal delivers one outcome only: a further 'complete'
\* or 'failed' on a signal that has already delivered one causes no event,
\* no exec and no change of any cursor.
C15_SignalSingleUse ==
    [][\A p \in DOMAIN promises :
           (promises[p].fired >= 1 /\ promises'[p].fired > promises[p].fired) =>
               /\ queues' = queues
               /\ \A j \in DOMAIN trace' \ DOMAIN trace :
                      trace'[j].kind \notin Events \cup {"exec"}]_vars

\* Queues o and q were created by the same fork.
Siblings(o, q) ==
    /\ o # q
    /\ \E i, j \in DOMAIN trace :
        /\ trace[i].kind = "newQueue" /\ trace[i].qid = o
        /\ trace[j].kind = "newQueue" /\ trace[j].qid = q
        /\ trace[i].parent = trace[j].parent

\* C16: a failure signal in one child of a fork leaves its sibling alone:
\* the cursor of the sibling counts the sibling's own successes and, as
\* long as the sibling's own signals are successes, its events are the
\* expected ones, its tasks started in order and queueComplete at the end.
C16_SiblingUnaffectedByFailure ==
    \A o, q \in DOMAIN queues :
        (Siblings(o, q) /\ At("signal:failed", q) # {}) =>
            /\ queues[o].pos = Count("signal:complete", o)
            /\ (ForkFree(o) /\ At("signal:failed", o) = {}
                    /\ At("taskStarted", o) # {})
                   => EventsOf(o) = ExpectedEvents(o)

\* A child has failed, and its sibling with two tasks has since started a
\* task and emitted queueComplete.
C16_Witness ==
    \E o, q \in DOMAIN queues :
        /\ Siblings(o, q)
        /\ Len(queues[o].queue) = 2
        /\ \E i \in At("signal:failed", q) : \E j \in At("queueComplete", o) :
               /\ i < j
               /\ \E k \in At("taskStarted", o) : i < k

\* Queue q has ended: no signal is awaited and either every signal was a
\* success, queueComplete was emitted once and the cursor is tasks.length, or
\* a signal was a failure and taskFailed was emitted.
Ended(q) ==
    /\ Pending(q) = {}
    /\ \/ /\ At("signal:failed", q) = {}
          /\ Count("queueComplete", q) = 1
          /\ queues[q].pos = Len(queues[q].queue)
       \/ /\ At("signal:failed", q) # {}
          /\ Count("taskFailed", q) = 1
          /\ Count("queueComplete", q) = 0

Running(q) == started /\ ForkFree(q) /\ Len(queues[q].queue) >= 1

\* C17: with a runner that answers every exec, a fork-free Queue with at
\* least one task on which run was called ends: it emits queueComplete with
\* the cursor at tasks.length when all signals are successes and taskFailed
\* otherwise; and while a signal is awaited and none arrives, the Queue
\* emits nothing and stays as it is.
C17_RunEnds ==
    /\ Running(1) ~> Ended(1)
    /\ [][(Running(1) /\ Pending(1) # {} /\ promises' = promises)
              => (trace' = trace /\ queues' = queues)]_vars

\* A fork-free Queue with three tasks has ended with queueComplete.
C17_Witness ==
    /\ Running(1)
    /\ Len(queues[1].queue) = 3
    /\ Ended(1)
    /\ Count("queueComplete", 1) = 1

\* C18: a step that changes the task list of a Queue is one task() call:
\* it puts exactly one Task Record {type, spec} behind the records that were
\* there, in their order, and changes nothing else: not the cursor, the
\* ancestry or the runner binding of that Queue, no other Queue, no runner,
\* no completion signal; it emits no event, dispatches nothing and does not
\* throw.
C18_TaskOnlyAppends ==
    [][\A q \in DOMAIN queues :
           queues'[q].queue # queues[q].queue =>
               /\ \E t \in TaskMenu :
                      queues' = [queues EXCEPT ![q].queue = Append(@, t)]
               /\ SubSeq(queues'[q].queue, 1, Len(queues[q].queue))
                      = queues[q].queue
               /\ runners' = runners
               /\ heap' = heap
               /\ promises' = promises
               /\ trace' = trace
               /\ thrown' = "none"]_vars

\* task() was called on a Queue whose first task is dispatched and awaits
\* its signal: the list holds three records, the two earlier ones differ,
\* and nothing but the one taskStarted and the one exec was seen.
C18_Witness ==
    /\ Len(queues) = 1
    /\ Len(queues[1].queue) = 3
    /\ queues[1].queue[1] # queues[1].queue[2]
    /\ queues[1].pos = 0
    /\ Len(trace) = 2
    /\ At("taskStarted", 1) = {1}
    /\ Pending(1) # {}
    /\ thrown = "none"

==========================================================================
